---- MODULE Spec2Model ----
(***************************************************************************)
(* Model of the JSON to XLSX converter (src/converter.js).                 *)
(*                                                                         *)
(* JavaScript strings are sequences of one-character strings, so that      *)
(* concatenation, join, replace and JSON.stringify are computed and not    *)
(* assumed.  A JavaScript object is the sequence of its own enumerable     *)
(* properties in iteration order (insertion order: the key universes hold  *)
(* no integer-like key, which JavaScript would move to the front).         *)
(***************************************************************************)
EXTENDS Bags, FiniteSets, Integers, Sequences, TLC

(***************************************************************************)
(* Bounds of the model.                                                    *)
(***************************************************************************)
MaxEntries == 3     \* properties (nested ones included) of a drawn JsonRecord
MaxArrLen == 2      \* elements of a drawn array value
MaxRecs == 2        \* records of a drawn FlatRecord sequence
MaxSegs == 3        \* segments of a drawn file name
MaxFlatKeys == 2    \* keys of a drawn FlatRecord, fields of a drawn field list
MaxPending == 2     \* FileReader reads in flight at once

(***************************************************************************)
(* String literals of the source.                                          *)
(***************************************************************************)
EmptyStr == << >>
Dot == <<".">>
CommaSpace == <<",", " ">>
DotJson == <<".", "j", "s", "o", "n">>
DotXlsx == <<".", "x", "l", "s", "x">>
ProtoKey == <<"_", "_", "p", "r", "o", "t", "o", "_", "_">>
createdOn == <<"c", "r", "e", "a", "t", "e", "d", "O", "n">>
modifiedOn == <<"m", "o", "d", "i", "f", "i", "e", "d", "O", "n">>
dueDate == <<"d", "u", "e", "D", "a", "t", "e">>
reportedTime == <<"r", "e", "p", "o", "r", "t", "e", "d", "T", "i", "m", "e">>
remainingTime == <<"r", "e", "m", "a", "i", "n", "i", "n", "g", "T", "i", "m", "e">>
TimestampFields == {createdOn, modifiedOn, dueDate, reportedTime, remainingTime}

(***************************************************************************)
(* JSON values (the result of JSON.parse) and JavaScript's undefined.      *)
(***************************************************************************)
JNull == [t |-> "null"]
JBool(b) == [t |-> "bool", b |-> b]
JNum(n) == [t |-> "num", n |-> n]
JStr(s) == [t |-> "str", s |-> s]
JArr(e) == [t |-> "arr", e |-> e]
JObj(kv) == [t |-> "obj", kv |-> kv]
Undefined == [t |-> "undefined"]
Prop(k, v) == [k |-> k, v |-> v]

\* typeof v === 'object' (true of null, of arrays and of mappings)
TypeofObject(v) == v.t \in {"null", "arr", "obj"}
\* Array.isArray(v)
IsArray(v) == v.t = "arr"

(***************************************************************************)
(* String conversions.                                                     *)
(***************************************************************************)
Digits == <<"0", "1", "2", "3", "4", "5", "6", "7", "8", "9">>

RECURSIVE NatToStr(_)
NatToStr(n) == IF n < 10 THEN <<Digits[n + 1]>>
               ELSE NatToStr(n \div 10) \o <<Digits[(n % 10) + 1]>>

\* String(n) of an integer
NumToStr(n) == IF n < 0 THEN <<"-">> \o NatToStr(-n) ELSE NatToStr(n)

RECURSIVE Concat(_, _)
\* the strings of seq, with sep between each two
Concat(seq, sep) == IF seq = << >> THEN EmptyStr
                    ELSE IF Len(seq) = 1 THEN seq[1]
                    ELSE seq[1] \o sep \o Concat(Tail(seq), sep)

RECURSIVE JSONstringify(_)
\* JSON.stringify(v), compact; the strings of the model hold no character
\* that JSON escapes
JSONstringify(v) ==
    CASE v.t = "null" -> <<"n", "u", "l", "l">>
      [] v.t = "bool" -> IF v.b THEN <<"t", "r", "u", "e">>
                                ELSE <<"f", "a", "l", "s", "e">>
      [] v.t = "num" -> NumToStr(v.n)
      [] v.t = "str" -> <<"\"">> \o v.s \o <<"\"">>
      [] v.t = "arr" ->
            <<"[">> \o Concat([i \in 1..Len(v.e) |-> JSONstringify(v.e[i])], <<",">>)
                    \o <<"]">>
      [] v.t = "obj" ->
            <<"{">> \o Concat([i \in 1..Len(v.kv) |->
                                 <<"\"">> \o v.kv[i].k \o <<"\"", ":">>
                                          \o JSONstringify(v.kv[i].v)], <<",">>)
                    \o <<"}">>

\* the string form Array.prototype.join gives an element: null and undefined
\* give the empty string, an array its own join(','), a mapping
\* '[object Object]'
RECURSIVE JoinItem(_)
JoinItem(v) ==
    CASE v.t \in {"null", "undefined"} -> EmptyStr
      [] v.t = "bool" -> IF v.b THEN <<"t", "r", "u", "e">>
                                ELSE <<"f", "a", "l", "s", "e">>
      [] v.t = "num" -> NumToStr(v.n)
      [] v.t = "str" -> v.s
      [] v.t = "arr" -> Concat([i \in 1..Len(v.e) |-> JoinItem(v.e[i])], <<",">>)
      [] v.t = "obj" -> <<"[", "o", "b", "j", "e", "c", "t", " ",
                          "O", "b", "j", "e", "c", "t", "]">>

\* arr.join(sep)
Join(arr, sep) == Concat([i \in 1..Len(arr) |-> JoinItem(arr[i])], sep)

TwoDigits(n) == <<Digits[(n \div 10) + 1], Digits[(n % 10) + 1]>>

\* moment(timestamp).format('YYYY-MM-DD HH:mm:ss') of a timestamp in the
\* first hour of the epoch, in a UTC locale
formatTimestampField(timestamp) ==
    <<"1", "9", "7", "0", "-", "0", "1", "-", "0", "1", " ", "0", "0", ":">>
        \o TwoDigits((timestamp \div 60000) % 60) \o <<":">>
        \o TwoDigits((timestamp \div 1000) % 60)

(***************************************************************************)
(* Objects as property sequences.                                          *)
(***************************************************************************)
\* Object.keys(obj)
ObjectKeys(obj) == [i \in 1..Len(obj) |-> obj[i].k]

HasKey(obj, key) == \E i \in 1..Len(obj) : obj[i].k = key

\* obj[key]
Get(obj, key) == IF HasKey(obj, key)
                 THEN obj[CHOOSE i \in 1..Len(obj) : obj[i].k = key].v
                 ELSE Undefined

\* obj[key] = value on a plain object whose values are never mappings: an
\* existing property keeps its place, a new one is appended, and the key
\* '__proto__' reaches the prototype setter, which creates no property
Put(obj, key, value) ==
    IF key = ProtoKey THEN obj
    ELSE IF HasKey(obj, key)
         THEN [i \in 1..Len(obj) |-> IF obj[i].k = key THEN Prop(key, value) ELSE obj[i]]
         ELSE Append(obj, Prop(key, value))

\* the properties a for-in loop with the hasOwnProperty test visits: those of
\* a mapping, the indices of an array or of a string, none of another value
OwnProps(v) ==
    CASE v.t = "obj" -> v.kv
      [] v.t = "arr" -> [i \in 1..Len(v.e) |-> Prop(NatToStr(i - 1), v.e[i])]
      [] v.t = "str" -> [i \in 1..Len(v.s) |-> Prop(NatToStr(i - 1), JStr(<<v.s[i]>>))]
      [] OTHER -> << >>

(***************************************************************************)
(* The flatten-and-clean transform.                                        *)
(***************************************************************************)
\* item => typeof item !== 'object' && !Array.isArray(item)
IsSimple(item) == ~TypeofObject(item) /\ ~IsArray(item)

allSimple(arr) == \A i \in 1..Len(arr) : IsSimple(arr[i])

\* a join that forgets the separator
newKeyOf_NoDot(parentKey, key) == parentKey \o key

\* a join that forgets the parent
newKeyOf_NoParent(parentKey, key) == key

\* the template `${parentKey}.${key}`, or key alone under a falsy parentKey
newKeyOf(parentKey, key) == IF parentKey # EmptyStr THEN parentKey \o Dot \o key ELSE key

RECURSIVE FlattenProps(_, _, _)
\* the for-in loop of #flattenAndCleanObject over the properties props
FlattenProps(props, parentKey, result) ==
    IF props = << >> THEN result
    ELSE LET key == props[1].k
             val == props[1].v
             newKey == newKeyOf(parentKey, key)
             after ==
                IF TypeofObject(val) /\ val.t # "null" /\ ~IsArray(val)
                THEN FlattenProps(OwnProps(val), newKey, result)
                ELSE IF IsArray(val)
                THEN IF allSimple(val.e)
                     THEN Put(result, newKey, JStr(Join(val.e, CommaSpace)))
                     ELSE Put(result, newKey, JStr(JSONstringify(val)))
                ELSE IF key \in TimestampFields /\ val.t = "num" /\ val.n > 0
                THEN Put(result, newKey, JStr(formatTimestampField(val.n)))
                ELSE Put(result, newKey, val)
         IN FlattenProps(Tail(props), parentKey, after)

flattenAndCleanObject(obj, parentKey, result) ==
    FlattenProps(OwnProps(obj), parentKey, result)

\* the call of the load handler: both defaults taken
flatten(item) == flattenAndCleanObject(item, EmptyStr, << >>)

(***************************************************************************)
(* Header derivation and row projection.                                   *)
(***************************************************************************)
RECURSIVE FlatMapKeys(_)
\* data.flatMap(Object.keys)
FlatMapKeys(data) == IF data = << >> THEN << >>
                     ELSE ObjectKeys(data[1]) \o FlatMapKeys(Tail(data))

RECURSIVE SetOrder(_, _)
\* Array.from(new Set(seq)): the first occurrence of each element, in order
SetOrder(seq, seen) ==
    IF seq = << >> THEN seen
    ELSE IF \E i \in 1..Len(seen) : seen[i] = seq[1]
         THEN SetOrder(Tail(seq), seen)
         ELSE SetOrder(Tail(seq), Append(seen, seq[1]))

\* a derivation that forgets to deduplicate
deriveFields_NoSet(data) == FlatMapKeys(data)

\* Array.from(new Set(data.flatMap(Object.keys)))
deriveFields(data) == SetOrder(FlatMapKeys(data), << >>)

RECURSIVE newRowOf_SkipAbsent(_, _, _)
\* a projection that copies only the fields the row has
newRowOf_SkipAbsent(row, fields, newRow) ==
    IF fields = << >> THEN newRow
    ELSE newRowOf_SkipAbsent(row, Tail(fields),
                             IF HasKey(row, fields[1])
                             THEN Put(newRow, fields[1], Get(row, fields[1]))
                             ELSE newRow)

RECURSIVE newRowOf(_, _, _)
\* fields.forEach(field => { newRow[field] = row[field]; })
newRowOf(row, fields, newRow) ==
    IF fields = << >> THEN newRow
    ELSE newRowOf(row, Tail(fields), Put(newRow, fields[1], Get(row, fields[1])))

\* data.map(row => { const newRow = {}; ...; return newRow; })
filterData(data, fields) == [i \in 1..Len(data) |-> newRowOf(data[i], fields, << >>)]

(***************************************************************************)
(* Export.                                                                 *)
(***************************************************************************)
\* XLSX.utils.json_to_sheet(rows): the header row is the keys of the rows in
\* first-seen order, and a cell is left blank under an undefined value
json_to_sheet(rows) ==
    LET hdr == SetOrder(FlatMapKeys(rows), << >>)
    IN [header |-> hdr,
        rows |-> [r \in 1..Len(rows) |-> [c \in 1..Len(hdr) |-> Get(rows[r], hdr[c])]]]

IsPrefixAt(s, pat, i) == /\ i + Len(pat) - 1 <= Len(s)
                         /\ SubSeq(s, i, i + Len(pat) - 1) = pat

\* s.replace(pat, by) with a string pattern: the first occurrence only
Replace(s, pat, by) ==
    IF \E i \in 1..Len(s) : IsPrefixAt(s, pat, i)
    THEN LET at == CHOOSE i \in 1..Len(s) :
                      /\ IsPrefixAt(s, pat, i)
                      /\ \A j \in 1..(i - 1) : ~IsPrefixAt(s, pat, j)
         IN SubSeq(s, 1, at - 1) \o by \o SubSeq(s, at + Len(pat), Len(s))
    ELSE s

\* files[0].name.replace('.json', '.xlsx')
exportFileName(name) == Replace(name, DotJson, DotXlsx)

(***************************************************************************)
(* The files the user can choose.  The content of a file is the outcome of *)
(* JSON.parse on its text: a thrown SyntaxError or the parsed value.       *)
(***************************************************************************)
Chr(c) == <<c>>
FileText(value) == [valid |-> TRUE, value |-> value]
\* a text JSON.parse rejects, with the message of the SyntaxError
Malformed == [valid |-> FALSE,
              message |-> <<"U", "n", "e", "x", "p", "e", "c", "t", "e", "d", " ",
                            "t", "o", "k", "e", "n">>]

ThreeObjects ==
    JArr(<< JObj(<<Prop(Chr("i"), JNum(1)),
                   Prop(Chr("u"), JObj(<<Prop(Chr("n"), JStr(Chr("x")))>>))>>),
            JObj(<<Prop(Chr("i"), JNum(2)),
                   Prop(Chr("t"), JArr(<<JStr(Chr("p")), JStr(Chr("q"))>>))>>),
            JObj(<<Prop(Chr("i"), JNum(3)),
                   Prop(Chr("u"), JObj(<<Prop(Chr("n"), JNull)>>))>>) >>)

TwoItems == JArr(<< JObj(<<Prop(Chr("k"), JBool(TRUE))>>), JNum(7) >>)

Files ==
    { [name |-> Chr("a") \o DotJson, text |-> FileText(ThreeObjects)],
      [name |-> Chr("b") \o DotJson, text |-> FileText(TwoItems)],
      [name |-> Chr("c") \o DotJson, text |-> Malformed],
      [name |-> Chr("d") \o DotJson, text |-> FileText(JObj(<<Prop(Chr("i"), JNum(1))>>))],
      [name |-> Chr("e") \o DotJson, text |-> FileText(JArr(<< >>))] }

NoFile == [name |-> EmptyStr, text |-> Malformed]
NoWrite == [fileName |-> EmptyStr, sheetName |-> "", sheet |-> json_to_sheet(<< >>)]
NoInput == [kind |-> "none"]

Message(text, arg) == [text |-> text, arg |-> arg]
NoMessage == Message("", EmptyStr)

VARIABLES
    files0,                   \* jsonFileInput.files[0], NoFile when there is none
    pending,                  \* the files whose FileReader read is in flight (a bag)
    originalJsonData,         \* #originalJsonData
    flattenedAndCleanedData,  \* #flattenedAndCleanedData
    selectedFileNameDiv,      \* text of selectedFileNameDiv
    messageDiv,               \* text of messageDiv
    previewHidden,            \* previewTableContainer has class 'hidden'
    fieldSelectionHidden,     \* fieldSelectionContainer has class 'hidden'
    tableHeaders,             \* the th cells of tableHeadersRow
    tableBody,                \* the rows of tableBody, each its td texts
    fieldCheckboxes,          \* the checkboxes of fieldCheckboxesDiv, in DOM order
    lastWrite,                \* the last file XLSX.writeFile produced
    lastHandler,              \* the handler that ran last and how it ended
    input,                    \* the argument drawn for a pure function
    output                    \* what the function returned for it

dataVars == <<originalJsonData, flattenedAndCleanedData>>
appVars == <<files0, pending, originalJsonData, flattenedAndCleanedData,
             selectedFileNameDiv, messageDiv, previewHidden, fieldSelectionHidden,
             tableHeaders, tableBody, fieldCheckboxes, lastWrite, lastHandler>>
fnVars == <<input, output>>
vars == <<files0, pending, originalJsonData, flattenedAndCleanedData,
          selectedFileNameDiv, messageDiv, previewHidden, fieldSelectionHidden,
          tableHeaders, tableBody, fieldCheckboxes, lastWrite, lastHandler,
          input, output>>

Handler(name, outcome) == [name |-> name, outcome |-> outcome]

\* the state the constructor leaves: both fields at their initialisers, the
\* page as loaded
AppInit ==
    /\ files0 = NoFile
    /\ pending = EmptyBag
    /\ originalJsonData = JArr(<< >>)
    /\ flattenedAndCleanedData = << >>
    /\ selectedFileNameDiv = EmptyStr
    /\ messageDiv = NoMessage
    /\ previewHidden = TRUE
    /\ fieldSelectionHidden = TRUE
    /\ tableHeaders = << >>
    /\ tableBody = << >>
    /\ fieldCheckboxes = << >>
    /\ lastWrite = NoWrite
    /\ lastHandler = Handler("constructor", "done")

Init == AppInit /\ input = NoInput /\ output = NoInput

(***************************************************************************)
(* Rendering.                                                              *)
(***************************************************************************)
\* td.textContent = rowData[header] !== undefined ? rowData[header] : ''
CellText(v) == IF v.t = "undefined" THEN EmptyStr ELSE JoinItem(v)

\* #renderTableRows
renderTableRows(data, headers) ==
    [r \in 1..Len(data) |-> [c \in 1..Len(headers) |-> CellText(Get(data[r], headers[c]))]]

\* #renderTable
renderTable(data) ==
    IF Len(data) = 0
    THEN /\ previewHidden' = TRUE
         /\ UNCHANGED <<tableHeaders, tableBody>>
    ELSE LET headers == deriveFields(data)
         IN /\ tableHeaders' = headers
            /\ tableBody' = renderTableRows(data, headers)
            /\ previewHidden' = FALSE

\* #createFieldCheckbox
createFieldCheckbox(header) == [value |-> header, checked |-> TRUE]

\* #populateFieldSelection
populateFieldSelection(data) ==
    IF Len(data) = 0
    THEN /\ fieldSelectionHidden' = TRUE
         /\ UNCHANGED fieldCheckboxes
    ELSE LET allHeaders == deriveFields(data)
         IN /\ fieldCheckboxes' = [i \in 1..Len(allHeaders) |-> createFieldCheckbox(allHeaders[i])]
            /\ fieldSelectionHidden' = FALSE

\* a selection that forgets the :checked filter
CheckedValues_All(boxes) == [i \in 1..Len(boxes) |-> boxes[i].value]

\* querySelectorAll('input[type="checkbox"]:checked').map(cb => cb.value)
CheckedValues(boxes) ==
    LET F[i \in 0..Len(boxes)] ==
            IF i = 0 THEN << >>
            ELSE IF boxes[i].checked THEN Append(F[i - 1], boxes[i].value) ELSE F[i - 1]
    IN F[Len(boxes)]

(***************************************************************************)
(* The handlers.                                                           *)
(***************************************************************************)
\* #handleJsonFileChange with a file chosen: the page is cleared and a read
\* is started; the two data fields are left alone
FileChange(f) ==
    /\ f # files0
    /\ BagCardinality(pending) < MaxPending
    /\ files0' = f
    /\ selectedFileNameDiv' = f.name
    /\ messageDiv' = NoMessage
    /\ previewHidden' = TRUE
    /\ fieldSelectionHidden' = TRUE
    /\ tableHeaders' = << >>
    /\ tableBody' = << >>
    /\ fieldCheckboxes' = << >>
    /\ pending' = pending (+) SetToBag({f})
    /\ lastHandler' = Handler("change", "file")
    /\ UNCHANGED <<originalJsonData, flattenedAndCleanedData, lastWrite, fnVars>>

\* #handleJsonFileChange with the selection cleared
FileChangeNone ==
    /\ files0 # NoFile
    /\ files0' = NoFile
    /\ selectedFileNameDiv' = <<"N", "o", " ", "f", "i", "l", "e", " ",
                                "c", "h", "o", "s", "e", "n">>
    /\ messageDiv' = NoMessage
    /\ previewHidden' = TRUE
    /\ fieldSelectionHidden' = TRUE
    /\ tableHeaders' = << >>
    /\ tableBody' = << >>
    /\ fieldCheckboxes' = << >>
    /\ originalJsonData' = JArr(<< >>)
    /\ flattenedAndCleanedData' = << >>
    /\ lastHandler' = Handler("change", "none")
    /\ UNCHANGED <<pending, lastWrite, fnVars>>

\* reader.onload of the read of f; reads complete in any order
ReaderOnload(f) ==
    /\ BagIn(f, pending)
    /\ pending' = pending (-) SetToBag({f})
    /\ IF ~f.text.valid
       THEN \* JSON.parse throws: the catch block
            /\ messageDiv' = Message("Error reading JSON file: ", f.text.message)
            /\ lastHandler' = Handler("onload", "parseError")
            /\ UNCHANGED <<originalJsonData, flattenedAndCleanedData, previewHidden,
                           fieldSelectionHidden, tableHeaders, tableBody, fieldCheckboxes>>
       ELSE /\ originalJsonData' = f.text.value
            /\ IF ~IsArray(f.text.value)
               THEN /\ messageDiv' = Message("JSON data must be an array of objects.", EmptyStr)
                    /\ lastHandler' = Handler("onload", "notArray")
                    /\ UNCHANGED <<flattenedAndCleanedData, previewHidden,
                                   fieldSelectionHidden, tableHeaders, tableBody,
                                   fieldCheckboxes>>
               ELSE LET data == [i \in 1..Len(f.text.value.e) |-> flatten(f.text.value.e[i])]
                    IN /\ flattenedAndCleanedData' = data
                       /\ populateFieldSelection(data)
                       /\ renderTable(data)
                       /\ lastHandler' = Handler("onload", "ok")
                       /\ UNCHANGED messageDiv
    /\ UNCHANGED <<files0, selectedFileNameDiv, lastWrite, fnVars>>

\* the user toggles checkbox i, and its change handler renders the table again
ToggleField(i) ==
    /\ LET boxes == [fieldCheckboxes EXCEPT ![i].checked = ~@]
           currentSelectedFields == CheckedValues(boxes)
           filteredData == filterData(flattenedAndCleanedData, currentSelectedFields)
       IN /\ fieldCheckboxes' = boxes
          /\ renderTable(filteredData)
    /\ lastHandler' = Handler("toggle", "rendered")
    /\ UNCHANGED <<files0, pending, originalJsonData, flattenedAndCleanedData,
                   selectedFileNameDiv, messageDiv, fieldSelectionHidden, lastWrite,
                   fnVars>>

\* #handleConvertButtonClick
ConvertClick ==
    /\ IF Len(flattenedAndCleanedData) = 0
       THEN /\ messageDiv' = Message("No data to convert. Please upload a JSON file first.", EmptyStr)
            /\ lastHandler' = Handler("convert", "noData")
            /\ UNCHANGED lastWrite
       ELSE LET selectedFields == CheckedValues(fieldCheckboxes)
            IN IF Len(selectedFields) = 0
               THEN /\ messageDiv' = Message("Please select at least one field to export.", EmptyStr)
                    /\ lastHandler' = Handler("convert", "noFields")
                    /\ UNCHANGED lastWrite
               ELSE IF files0 = NoFile
               THEN \* files[0] is undefined: reading its name throws a
                    \* TypeError after the message was cleared
                    /\ messageDiv' = NoMessage
                    /\ lastHandler' = Handler("convert", "threw")
                    /\ UNCHANGED lastWrite
               ELSE LET dataToExport == filterData(flattenedAndCleanedData, selectedFields)
                        worksheet == json_to_sheet(dataToExport)
                        fileName == exportFileName(files0.name)
                    IN /\ lastWrite' = [fileName |-> fileName, sheetName |-> "Data",
                                        sheet |-> worksheet]
                       /\ messageDiv' = Message("Conversion successful! Downloading ", fileName)
                       /\ lastHandler' = Handler("convert", "exported")
    /\ UNCHANGED <<files0, pending, originalJsonData, flattenedAndCleanedData,
                   selectedFileNameDiv, previewHidden, fieldSelectionHidden,
                   tableHeaders, tableBody, fieldCheckboxes, fnVars>>

Next ==
    \/ \E f \in Files : FileChange(f)
    \/ FileChangeNone
    \/ \E f \in Files : ReaderOnload(f)
    \/ \E i \in 1..Len(fieldCheckboxes) : ToggleField(i)
    \/ ConvertClick

Spec == Init /\ [][Next]_vars

(***************************************************************************)
(* The pure functions on drawn arguments.                                  *)
(***************************************************************************)
RecKeys == {EmptyStr, Chr("a"), Chr("b"), <<"a", ".", "b">>, ProtoKey}
RecLeaves == {JNull, JNum(5)}

RECURSIVE PropSeqs(_)
\* the bodies of the mappings over RecKeys with n properties in all, the
\* nested ones counted, and no key twice in one mapping
PropSeqs(n) ==
    IF n = 0 THEN {<< >>}
    ELSE { <<Prop(t[1], t[2])>> \o t[3] :
             t \in { u \in RecKeys \X RecLeaves \X PropSeqs(n - 1) : ~HasKey(u[3], u[1]) } }
         \cup
         UNION { { <<Prop(t[1], JObj(t[2]))>> \o t[3] :
                     t \in { u \in RecKeys \X PropSeqs(j) \X PropSeqs(n - 1 - j) :
                               ~HasKey(u[3], u[1]) } } : j \in 0..(n - 1) }

JsonRecords == { JObj(kv) : kv \in UNION { PropSeqs(n) : n \in 0..MaxEntries } }

SeqsUpTo(S, n) == UNION { [1..m -> S] : m \in 0..n }

FieldNames == {Chr("t"), createdOn}
Scalars == {JNull, JBool(TRUE), JNum(61500), JNum(-5), JStr(Chr("x"))}
ArrayItems == {JNull, JBool(FALSE), JNum(1), JStr(Chr("x")),
               JObj(<<Prop(Chr("x"), JNum(1))>>), JArr(<<JNum(2)>>)}
FieldRecords ==
    { JObj(<<Prop(k, v)>>) :
        k \in FieldNames,
        v \in Scalars \cup { JArr(e) : e \in SeqsUpTo(ArrayItems, MaxArrLen) } }

FlatKeys == {Chr("a"), Chr("b"), Chr("c")}
FlatValues(k) == IF k = Chr("a") THEN {JNum(1), JNull}
                 ELSE IF k = Chr("b") THEN {JStr(Chr("x"))} ELSE {JNum(2)}
NoRepeat(seq) == \A i, j \in 1..Len(seq) : i # j => seq[i] # seq[j]
KeyLists(K, n) == { ks \in SeqsUpTo(K, n) : NoRepeat(ks) }
FlatRecords ==
    UNION { { r \in [1..Len(ks) -> [k : FlatKeys, v : {JNum(1), JNum(2), JNull, JStr(Chr("x"))}]] :
                \A i \in 1..Len(ks) : r[i].k = ks[i] /\ r[i].v \in FlatValues(ks[i]) } :
            ks \in KeyLists(FlatKeys, MaxFlatKeys) }
FlatRecordSeqs == SeqsUpTo(FlatRecords, MaxRecs)
FieldLists == KeyLists(FlatKeys \cup {ProtoKey}, MaxFlatKeys)

NameSegs == {Chr("a"), DotJson, <<".", "t", "x", "t">>, <<".", "J", "S", "O", "N">>}
RECURSIVE Flat(_)
Flat(segs) == IF segs = << >> THEN EmptyStr ELSE segs[1] \o Flat(Tail(segs))
FileNames == { Flat(segs) : segs \in SeqsUpTo(NameSegs, MaxSegs) \ {<< >>} }

Inputs ==
    { [kind |-> "record", obj |-> r] : r \in JsonRecords }
    \cup { [kind |-> "field", obj |-> r] : r \in FieldRecords }
    \cup { [kind |-> "derive", data |-> d] : d \in FlatRecordSeqs }
    \cup { [kind |-> "project", data |-> d, fields |-> fl] :
             d \in FlatRecordSeqs, fl \in FieldLists }
    \cup { [kind |-> "fileName", name |-> n] : n \in FileNames }

FnInit == AppInit /\ input \in Inputs /\ output = NoInput

Returned(kind, value) == [kind |-> kind, value |-> value]

ApplyFlatten ==
    /\ input.kind \in {"record", "field"}
    /\ output' = Returned("flatten", flatten(input.obj))
    /\ UNCHANGED <<appVars, input>>

ApplyDeriveFields ==
    /\ input.kind = "derive"
    /\ output' = Returned("derive", deriveFields(input.data))
    /\ UNCHANGED <<appVars, input>>

ApplyFilterData ==
    /\ input.kind = "project"
    /\ output' = Returned("project", filterData(input.data, input.fields))
    /\ UNCHANGED <<appVars, input>>

ApplyExportFileName ==
    /\ input.kind = "fileName"
    /\ output' = Returned("fileName", exportFileName(input.name))
    /\ UNCHANGED <<appVars, input>>

FnNext == ApplyFlatten \/ ApplyDeriveFields \/ ApplyFilterData \/ ApplyExportFileName

FnSpec == FnInit /\ [][FnNext]_vars

(***************************************************************************)
(* Vocabulary of the properties.                                           *)
(***************************************************************************)
Range(seq) == { seq[i] : i \in 1..Len(seq) }
KeySet(obj) == { obj[i].k : i \in 1..Len(obj) }
IndexOf(seq, x) == CHOOSE i \in 1..Len(seq) : seq[i] = x
Without(seq, x) == LET Keep(y) == y # x IN SelectSeq(seq, Keep)
Restrict(seq, S) == LET Keep(y) == y \in S IN SelectSeq(seq, Keep)
EndsWith(s, suffix) == /\ Len(s) >= Len(suffix)
                       /\ SubSeq(s, Len(s) - Len(suffix) + 1, Len(s)) = suffix

RECURSIVE LeafPaths(_, _)
\* the key sequences from the root to the values that are not mappings
LeafPaths(props, prefix) ==
    UNION { IF props[i].v.t = "obj"
            THEN LeafPaths(props[i].v.kv, Append(prefix, props[i].k))
            ELSE {Append(prefix, props[i].k)} : i \in 1..Len(props) }

RECURSIVE AllKeys(_)
\* the keys of a mapping and of the mappings nested in it
AllKeys(props) ==
    UNION { {props[i].k} \cup (IF props[i].v.t = "obj" THEN AllKeys(props[i].v.kv) ELSE {})
            : i \in 1..Len(props) }

DotJoined(path) == Concat(path, Dot)
HasDot(key) == \E i \in 1..Len(key) : key[i] = "."
\* the name up to its last dot, the whole name when it has none
BaseName(name) ==
    IF \E i \in 1..Len(name) : name[i] = "."
    THEN SubSeq(name, 1, (CHOOSE i \in 1..Len(name) :
                             name[i] = "." /\ \A j \in (i + 1)..Len(name) : name[j] # ".") - 1)
    ELSE name
\* the records a file holds once flattened, none when the file fails to load
DerivedFrom(f) ==
    IF f.text.valid /\ IsArray(f.text.value)
    THEN [i \in 1..Len(f.text.value.e) |-> flatten(f.text.value.e[i])]
    ELSE << >>
LoadsWell(f) == f = NoFile \/ (f.text.valid /\ IsArray(f.text.value))
CheckedSet == { fieldCheckboxes[i].value :
                  i \in { j \in 1..Len(fieldCheckboxes) : fieldCheckboxes[j].checked } }
\* a scalar in the sense of the data model: null, boolean, number or string
IsScalar(v) == v.t \in {"null", "bool", "num", "str"}

(***************************************************************************)
(* C1: after a load that ends in an error (the text is not JSON, or is not *)
(* an array) the working FlatRecord collection is empty: nothing of an     *)
(* earlier load is retained.                                               *)
(***************************************************************************)
C1_FailedLoadRetainsNothing ==
    (lastHandler.name = "onload" /\ lastHandler.outcome \in {"parseError", "notArray"})
        => flattenedAndCleanedData = << >>

(***************************************************************************)
(* C2: once no read is pending, the working collection is the one derived  *)
(* from the file selected last (empty when the selection was cleared),     *)
(* whatever the order in which the reads completed.  Stated for a last     *)
(* selection that loads well, so that only the order of completion can     *)
(* break it.                                                               *)
(***************************************************************************)
C2_LastSelectionWins ==
    (pending = EmptyBag /\ LoadsWell(files0))
        => flattenedAndCleanedData = DerivedFrom(files0)

C4_ScalarArrayJoined ==
    (output.kind = "flatten" /\ input.kind = "field" /\ IsArray(input.obj.kv[1].v)) =>
        LET arr == input.obj.kv[1].v
        IN output.value =
             << Prop(input.obj.kv[1].k,
                     IF \A i \in 1..Len(arr.e) : IsScalar(arr.e[i])
                     THEN JStr(Join(arr.e, CommaSpace))
                     ELSE JStr(JSONstringify(arr))) >>

C6_ClickWithoutDataOrFields ==
    [][ (lastHandler'.name = "convert"
            /\ (files0 = NoFile \/ flattenedAndCleanedData = << >> \/ CheckedSet = {}))
        => /\ lastHandler'.outcome \in {"noData", "noFields"}
           /\ messageDiv' # NoMessage
           /\ lastWrite' = lastWrite
           /\ UNCHANGED dataVars ]_vars

(***************************************************************************)
(* C7: deriveFields returns exactly the keys that occur in some record,    *)
(* each once, ordered by first occurrence (records in sequence order, the  *)
(* keys of a record in its own order); no record gives no field.           *)
(***************************************************************************)
C7_FieldsFirstSeen ==
    output.kind = "derive" =>
        LET data == input.data
            out == output.value
            FirstRec(k) == CHOOSE r \in 1..Len(data) :
                              /\ k \in KeySet(data[r])
                              /\ \A q \in 1..(r - 1) : k \notin KeySet(data[q])
            Before(k1, k2) ==
                \/ FirstRec(k1) < FirstRec(k2)
                \/ /\ FirstRec(k1) = FirstRec(k2)
                   /\ IndexOf(ObjectKeys(data[FirstRec(k1)]), k1)
                        < IndexOf(ObjectKeys(data[FirstRec(k1)]), k2)
        IN /\ Range(out) = UNION { KeySet(data[r]) : r \in 1..Len(data) }
           /\ NoRepeat(out)
           /\ \A i, j \in 1..Len(out) : i < j => Before(out[i], out[j])
           /\ (data = << >> => out = << >>)

C7_Witness ==
    /\ output.kind = "derive"
    /\ Len(input.data) = 2
    /\ ObjectKeys(input.data[1]) = <<Chr("b"), Chr("a")>>
    /\ ObjectKeys(input.data[2]) = <<Chr("a"), Chr("c")>>
    /\ output.value = <<Chr("b"), Chr("a"), Chr("c")>>

(***************************************************************************)
(* C8: the export file name is the input name with its extension replaced  *)
(* by ".xlsx": it ends in ".xlsx" and differs from the input name in the   *)
(* trailing extension only.                                                *)
(***************************************************************************)
C8_ExtensionReplaced ==
    output.kind = "fileName" =>
        /\ EndsWith(output.value, DotXlsx)
        /\ output.value = BaseName(input.name) \o DotXlsx

(***************************************************************************)
(* C9 as stated: every key of a flattened record is the "."-joined key     *)
(* sequence of a path from the root to a value that is not a mapping, and  *)
(* no value of the flattened record is a mapping or a sequence.            *)
(***************************************************************************)
C9_KeysAreJoinedPaths ==
    output.kind = "flatten" =>
        /\ \A i \in 1..Len(output.value) :
              /\ \E p \in LeafPaths(input.obj.kv, << >>) : output.value[i].k = DotJoined(p)
              /\ output.value[i].v.t \notin {"obj", "arr"}

(***************************************************************************)
(* C9 amended: the same, for the records none of whose keys is the empty   *)
(* string.                                                                 *)
(***************************************************************************)
C9_KeysAreJoinedPathsOfNonEmptyKeys ==
    (output.kind = "flatten" /\ EmptyStr \notin AllKeys(input.obj.kv)) =>
        /\ \A i \in 1..Len(output.value) :
              /\ \E p \in LeafPaths(input.obj.kv, << >>) : output.value[i].k = DotJoined(p)
              /\ output.value[i].v.t \notin {"obj", "arr"}

C9_Witness ==
    /\ output.kind = "flatten"
    /\ input.obj = JObj(<<Prop(Chr("a"), JObj(<<Prop(Chr("b"), JObj(<< >>)),
                                                Prop(Chr("a"), JNull)>>))>>)
    /\ output.value = <<Prop(<<"a", ".", "a">>, JNull)>>

(***************************************************************************)
(* C10 as stated: no two distinct key sequences flatten to the same key,   *)
(* so a flattened record has as many keys as the record has leaves.        *)
(***************************************************************************)
C10_NoAliasing ==
    (output.kind = "flatten" /\ input.kind = "record") =>
        Len(output.value) = Cardinality(LeafPaths(input.obj.kv, << >>))

(***************************************************************************)
(* C10 amended: the same, for the records whose keys are non-empty and     *)
(* free of "." and whose top-level '__proto__' key, if any, holds a        *)
(* mapping.                                                                *)
(***************************************************************************)
C10_NoAliasingOfPlainKeys ==
    (/\ output.kind = "flatten"
     /\ input.kind = "record"
     /\ \A k \in AllKeys(input.obj.kv) : k # EmptyStr /\ ~HasDot(k)
     /\ <<ProtoKey>> \notin LeafPaths(input.obj.kv, << >>)) =>
        /\ Len(output.value) = Cardinality(LeafPaths(input.obj.kv, << >>))
        /\ KeySet(output.value) = { DotJoined(p) : p \in LeafPaths(input.obj.kv, << >>) }

C10_Witness ==
    /\ output.kind = "flatten"
    /\ input.obj = JObj(<<Prop(Chr("a"), JObj(<<Prop(Chr("b"), JNum(5))>>)),
                          Prop(Chr("b"), JNum(5))>>)
    /\ Len(output.value) = 2

====
